---- MODULE Spec2Model ----
\* Matchmaking backend (src/main.py): identities, profiles, likes, matches,
\* chat messages and the admin cascading delete, over a shared document store.
EXTENDS Integers, Sequences, FiniteSets, Bags, TLC

\* ------------------------------------------------------------------ bounds
MaxUsers == 3
MaxLikes == 3
MaxMatches == 2
MaxMessages == 1
MaxProfiles == 2
MaxHistory == 2
MaxClock == 1
MaxAuthUsers == 2

Workers == {"w1", "w2"}
Fields == {"f1", "f2"}
\* a search filter: one submitted value, or none
Filters == Fields \cup {"any"}
Texts == {"hi"}

\* ----------------------------------------------------------- identifiers
\* An identifier travels as a string.  A string is <<n, spelling>>: "lc" is the
\* lower-case hex text that str(ObjectId) prints, "uc" the same 24 hex digits in
\* upper case (ObjectId() parses both to the same id), "bad" a text that
\* ObjectId() rejects.
BadId == <<0, "bad">>
NoToken == 0

\* The ids whose hex text has letters, so that it has a second spelling.
AltSpelled == {1}
IdStrings(n) ==
    {<<k, "lc">> : k \in 1..n} \cup {<<k, "uc">> : k \in AltSpelled} \cup {BadId}
UserIdStrings == IdStrings(MaxUsers)
MatchIdStrings == IdStrings(MaxMatches)
LikeTargets == UserIdStrings \ {BadId}
Tokens == 0..MaxUsers
Sessions == 1..MaxUsers

\* bson ObjectId(text): raises for a malformed text, else the id (hex digits
\* are read case-insensitively).
ValidObjectId(s) == s[2] # "bad"
ObjectId(s) == s[1]
\* str(oid): the lower-case hex text
str(oid) == <<oid, "lc">>

ADMIN_TOKEN == "admin-secret"
AdminTokens == {"admin-secret", "wrong"}

VARIABLES userauth, profile, like, match, message,
          nextUser, nextProfile, nextMatch, resp, calls, now

store == <<userauth, profile, like, match, message, nextUser, nextProfile, nextMatch>>
vars == <<userauth, profile, like, match, message,
          nextUser, nextProfile, nextMatch, resp, calls, now>>

\* ------------------------------------------------------------- responses
Response(op, status, tok, arg) ==
    [op |-> op, status |-> status, tok |-> tok, arg |-> arg,
     matches |-> {}, messages |-> <<>>, results |-> {}, verified |-> FALSE,
     token |-> NoToken]

IdleCall == [pc |-> "idle", op |-> "none", uid |-> BadId, to |-> BadId,
             data |-> "none", existing |-> 0, status |-> "none"]

Init ==
    /\ userauth = {}
    /\ profile = {}
    /\ like = EmptyBag
    /\ match = {}
    /\ message = <<>>
    /\ nextUser = 1
    /\ nextProfile = 1
    /\ nextMatch = 1
    /\ resp = Response("none", "none", NoToken, BadId)
    /\ calls = [w \in Workers |-> IdleCall]
    /\ now = 0

\* ----------------------------------------------------------------- store
\* database.create_document(collection, doc): a plain insert.  No collection has
\* a unique key besides _id, so an insert never fails on a duplicate.
create_document(collection, doc) == collection \cup {doc}

\* a document as a handler returns it: its _id printed as text
Serialize(ms) == {[m EXCEPT !._id = str(m._id)] : m \in ms}

\* ------------------------------------------------------------ require_auth
Authenticated(tok) == tok # NoToken /\ \E u \in userauth : u.token = tok
AuthUser(tok) == CHOOSE u \in userauth : u.token = tok

\* the id texts of the stored identities, as the store prints them
Identities == {str(u._id) : u \in userauth}

\* ------------------------------------------------- checkout and confirm
create_checkout_session ==
    /\ nextUser <= MaxUsers
    /\ userauth' = create_document(userauth,
           [_id |-> nextUser, stripe_session_id |-> nextUser,
            paid |-> FALSE, token |-> nextUser, verified |-> FALSE])
    /\ nextUser' = nextUser + 1
    /\ resp' = Response("checkout", "200", NoToken, BadId)
    /\ UNCHANGED <<profile, like, match, message, nextProfile, nextMatch, calls, now>>

SetPaid_Nothing(users, oid) == users

SetPaid(users, oid) ==
    {IF u._id = oid THEN [u EXCEPT !.paid = TRUE] ELSE u : u \in users}

confirm_payment(session_id) ==
    /\ IF \E u \in userauth : u.stripe_session_id = session_id
       THEN LET ua == CHOOSE u \in userauth : u.stripe_session_id = session_id IN
            /\ userauth' = SetPaid(userauth, ua._id)
            /\ resp' = [Response("confirm", "200", NoToken, BadId) EXCEPT
                            !.token = ua.token]
       ELSE /\ resp' = Response("confirm", "404", NoToken, BadId)
            /\ UNCHANGED userauth
    /\ UNCHANGED <<profile, like, match, message, nextUser, nextProfile, nextMatch, calls, now>>

\* ----------------------------------------------------------- profile CRUD
FindProfiles(profiles, uid) == {p \in profiles : p.userauth_id = uid}

UpdateProfile_Everyone(profiles, pid, uid, data) ==
    {[p EXCEPT !.data = data] : p \in profiles}

UpdateProfile(profiles, pid, uid, data) ==
    {IF p._id = pid THEN [p EXCEPT !.userauth_id = uid, !.data = data] ELSE p
        : p \in profiles}

InsertProfile(profiles, pid, uid, data) ==
    create_document(profiles, [_id |-> pid, userauth_id |-> uid, data |-> data])

create_or_update_profile(tok, data) ==
    /\ IF ~Authenticated(tok)
       THEN /\ resp' = Response("profile", "401", tok, BadId)
            /\ UNCHANGED <<profile, nextProfile>>
       ELSE IF ~AuthUser(tok).paid
       THEN /\ resp' = Response("profile", "402", tok, BadId)
            /\ UNCHANGED <<profile, nextProfile>>
       ELSE LET uid == str(AuthUser(tok)._id) IN
            IF FindProfiles(profile, uid) # {}
            THEN /\ \E existing \in FindProfiles(profile, uid) :
                        profile' = UpdateProfile(profile, existing._id, uid, data)
                 /\ resp' = Response("profile", "updated", tok, BadId)
                 /\ UNCHANGED nextProfile
            ELSE /\ nextProfile <= MaxProfiles
                 /\ profile' = InsertProfile(profile, nextProfile, uid, data)
                 /\ nextProfile' = nextProfile + 1
                 /\ resp' = Response("profile", "created", tok, BadId)
    /\ UNCHANGED <<userauth, like, match, message, nextUser, nextMatch, calls, now>>

get_my_profile(tok) ==
    /\ IF ~Authenticated(tok)
       THEN resp' = Response("me", "401", tok, BadId)
       ELSE LET user == AuthUser(tok) IN
            resp' = [Response("me", "200", tok, BadId) EXCEPT
                        !.results = Serialize(FindProfiles(profile, str(user._id))),
                        !.verified = user.verified]
    /\ UNCHANGED <<store, calls, now>>

\* ------------------------------------------------------------------ search
\* the filters of the query are one equality on the profile's fields
MatchingProfiles(profiles, flt) ==
    {p \in profiles : flt = "any" \/ p.data = flt}

\* the verified flag of the identity that owns the profile (False if none)
OwnerVerified(users, p) ==
    \E ua \in users : ua._id = ObjectId(p.userauth_id) /\ ua.verified

Cards(profiles, users, verified_only) ==
    {[userauth_id |-> p.userauth_id, data |-> p.data,
      verified |-> OwnerVerified(users, p)] :
        p \in {q \in profiles : ~verified_only \/ OwnerVerified(users, q)}}

search_profiles(tok, flt, verified_only) ==
    /\ IF ~Authenticated(tok)
       THEN resp' = Response("search", "401", tok, BadId)
       ELSE resp' = [Response("search", "200", tok, BadId) EXCEPT
                        !.results = Cards(MatchingProfiles(profile, flt),
                                          userauth, verified_only)]
    /\ UNCHANGED <<store, calls, now>>

\* -------------------------------------------------------- likes and matches
SelfLike_Unchecked(uid, to) == FALSE

SelfLike(uid, to) == uid = to

\* create_document on the like collection, kept as a bag: Like documents differ
\* only in their _id, which nothing reads
InsertLike_Skipped(likes, uid, to) == likes

InsertLike(likes, uid, to) ==
    likes (+) SetToBag({[from_id |-> uid, to_id |-> to]})

MutualLike_SameDirection(likes, uid, to) ==
    BagIn([from_id |-> uid, to_id |-> to], likes)

MutualLike(likes, uid, to) == BagIn([from_id |-> to, to_id |-> uid], likes)

MatchExists_Never(matches, uid, to) == FALSE

MatchExists_OneOrientation(matches, uid, to) ==
    \E m \in matches : m.userauth_a = uid /\ m.userauth_b = to

MatchExists(matches, uid, to) ==
    \E m \in matches : \/ (m.userauth_a = uid /\ m.userauth_b = to)
                       \/ (m.userauth_a = to /\ m.userauth_b = uid)

InsertMatch(matches, mid, uid, to) ==
    create_document(matches, [_id |-> mid, userauth_a |-> uid, userauth_b |-> to])

like_user(tok, to) ==
    /\ IF ~Authenticated(tok)
       THEN /\ resp' = Response("like", "401", tok, to)
            /\ UNCHANGED <<like, match, nextMatch>>
       ELSE LET uid == str(AuthUser(tok)._id) IN
            IF SelfLike(uid, to)
            THEN /\ resp' = Response("like", "400", tok, to)
                 /\ UNCHANGED <<like, match, nextMatch>>
            ELSE LET likes1 == InsertLike(like, uid, to)
                     mutual == MutualLike(likes1, uid, to)
                     create == mutual /\ ~MatchExists(match, uid, to)
                 IN  /\ BagCardinality(like) < MaxLikes
                     /\ create => nextMatch <= MaxMatches
                     /\ like' = likes1
                     /\ match' = IF create
                                 THEN InsertMatch(match, nextMatch, uid, to)
                                 ELSE match
                     /\ nextMatch' = IF create THEN nextMatch + 1 ELSE nextMatch
                     /\ resp' = Response("like",
                                         IF mutual THEN "match" ELSE "liked", tok, to)
    /\ UNCHANGED <<userauth, profile, message, nextUser, nextProfile, calls, now>>

MatchesOf_OnlyA(matches, uid) == {m \in matches : m.userauth_a = uid}

MatchesOf(matches, uid) ==
    {m \in matches : m.userauth_a = uid \/ m.userauth_b = uid}


get_matches(tok) ==
    /\ IF ~Authenticated(tok)
       THEN resp' = Response("matches", "401", tok, BadId)
       ELSE resp' = [Response("matches", "200", tok, BadId) EXCEPT
                        !.matches = Serialize(MatchesOf(match, str(AuthUser(tok)._id)))]
    /\ UNCHANGED <<store, calls, now>>

\* -------------------------------------------------------------------- chat
FindMatch(matches, match_id) ==
    IF ValidObjectId(match_id)
    THEN {m \in matches : m._id = ObjectId(match_id)}
    ELSE {}

IsParticipant_OnlyA(m, uid) == uid = m.userauth_a

IsParticipant(m, uid) == uid \in {m.userauth_a, m.userauth_b}

\* 404, 403 or ok, as send_message and get_messages decide it
ChatAccess(matches, uid, match_id) ==
    IF FindMatch(matches, match_id) = {} THEN "404"
    ELSE IF \E m \in FindMatch(matches, match_id) : ~IsParticipant(m, uid) THEN "403"
    ELSE "ok"

\* database.create_document stamps the document with the server's clock, read
\* in the store's millisecond resolution
Stamped(doc, t) == [match_id |-> doc.match_id, from_id |-> doc.from_id,
                    text |-> doc.text, created_at |-> t]

\* create_document on the message collection, kept in insertion order
InsertMessage(messages, match_id, uid, text, t) ==
    Append(messages,
           Stamped([match_id |-> match_id, from_id |-> uid, text |-> text], t))

\* send_message, with room for `room` stored messages
Send(tok, match_id, text, room) ==
    /\ IF ~Authenticated(tok)
       THEN /\ resp' = Response("send", "401", tok, match_id)
            /\ UNCHANGED message
       ELSE LET uid == str(AuthUser(tok)._id)
                access == ChatAccess(match, uid, match_id) IN
            IF access # "ok"
            THEN /\ resp' = Response("send", access, tok, match_id)
                 /\ UNCHANGED message
            ELSE /\ Len(message) < room
                 /\ message' = InsertMessage(message, match_id, uid, text, now)
                 /\ resp' = Response("send", "sent", tok, match_id)
    /\ UNCHANGED <<userauth, profile, like, match, nextUser, nextProfile, nextMatch, calls, now>>

send_message(tok, match_id, text) == Send(tok, match_id, text, MaxMessages)

\* find({"match_id": match_id}): the raw text is compared
MessagesOf(messages, match_id) ==
    SelectSeq(messages, LAMBDA m : m.match_id = match_id)

Permutations_(n) == {p \in [1..n -> 1..n] : \A i, j \in 1..n : p[i] = p[j] => i = j}

SortedOrders_AnyOrder(ms) ==
    {[i \in 1..Len(ms) |-> ms[p[i]]] : p \in Permutations_(Len(ms))}

\* .sort("created_at", 1): ascending created_at; documents with equal created_at
\* come in an order the store does not specify
SortedOrders(ms) ==
    {[i \in 1..Len(ms) |-> ms[p[i]]] :
        p \in {q \in Permutations_(Len(ms)) :
                  \A i, j \in 1..Len(ms) :
                      i < j => ms[q[i]].created_at <= ms[q[j]].created_at}}

get_messages(tok, match_id) ==
    /\ IF ~Authenticated(tok)
       THEN resp' = Response("history", "401", tok, match_id)
       ELSE LET uid == str(AuthUser(tok)._id)
                access == ChatAccess(match, uid, match_id) IN
            IF access # "ok"
            THEN resp' = Response("history", access, tok, match_id)
            ELSE \E sorted \in SortedOrders(MessagesOf(message, match_id)) :
                     resp' = [Response("history", "200", tok, match_id) EXCEPT
                                  !.messages = sorted]
    /\ UNCHANGED <<store, calls, now>>

\* ------------------------------------------------------------------- admin
DeleteProfiles(profiles, id) == {p \in profiles : p.userauth_id # id}

DeleteLikes(likes, id) ==
    LET keep == {e \in BagToSet(likes) : e.from_id # id /\ e.to_id # id}
    IN  [e \in keep |-> likes[e]]

DeleteMatches_OnlyA(matches, id) == {m \in matches : m.userauth_a # id}

DeleteMatches(matches, id) ==
    {m \in matches : m.userauth_a # id /\ m.userauth_b # id}

DeleteMessages(messages, id) ==
    SelectSeq(messages, LAMBDA m : m.from_id # id)

DeleteUserauth_Keep(users, oid) == users

DeleteUserauth(users, oid) == {u \in users : u._id # oid}

SetVerified(users, oid) ==
    {IF u._id = oid THEN [u EXCEPT !.verified = TRUE] ELSE u : u \in users}

admin_verify_user(admin, userauth_id) ==
    /\ IF admin # ADMIN_TOKEN
       THEN /\ resp' = Response("verify", "401", NoToken, userauth_id)
            /\ UNCHANGED userauth
       ELSE IF ~ValidObjectId(userauth_id)
       THEN /\ resp' = Response("verify", "400", NoToken, userauth_id)
            /\ UNCHANGED userauth
       ELSE LET oid == ObjectId(userauth_id) IN
            /\ userauth' = SetVerified(userauth, oid)
            /\ resp' = Response("verify",
                                IF \E u \in userauth : u._id = oid
                                THEN "verified" ELSE "404",
                                NoToken, userauth_id)
    /\ UNCHANGED <<profile, like, match, message,
                   nextUser, nextProfile, nextMatch, calls, now>>

admin_delete_user(admin, userauth_id) ==
    /\ IF admin # ADMIN_TOKEN
       THEN /\ resp' = Response("delete", "401", NoToken, userauth_id)
            /\ UNCHANGED <<userauth, profile, like, match, message>>
       ELSE IF ~ValidObjectId(userauth_id)
       THEN /\ resp' = Response("delete", "400", NoToken, userauth_id)
            /\ UNCHANGED <<userauth, profile, like, match, message>>
       ELSE LET oid == ObjectId(userauth_id) IN
            /\ profile' = DeleteProfiles(profile, userauth_id)
            /\ like' = DeleteLikes(like, userauth_id)
            /\ match' = DeleteMatches(match, userauth_id)
            /\ message' = DeleteMessages(message, userauth_id)
            /\ userauth' = DeleteUserauth(userauth, oid)
            /\ resp' = Response("delete",
                                IF \E u \in userauth : u._id = oid
                                THEN "deleted" ELSE "404",
                                NoToken, userauth_id)
    /\ UNCHANGED <<nextUser, nextProfile, nextMatch, calls, now>>

\* ------------------------------------------------------------------- clock
\* a millisecond of the server's clock passes
Tick ==
    /\ now < MaxClock
    /\ now' = now + 1
    /\ UNCHANGED <<store, resp, calls>>

\* --------------------------------------------- like_user, one store step at a time
\* A worker serves one request; every store read or write is a step of its own.
Free(w) == calls[w].pc \in {"idle", "done"}

Done(c, status) == [c EXCEPT !.pc = "done", !.status = status]

PendingInserts == Cardinality({w \in Workers : calls[w].pc = "insert"})

\* require_auth (find userauth by token) and the self-like test
LikeBegin(w, tok, to) ==
    /\ Free(w)
    /\ BagCardinality(like) + PendingInserts < MaxLikes
    /\ calls' = [calls EXCEPT ![w] =
           IF ~Authenticated(tok)
           THEN Done([IdleCall EXCEPT !.op = "like", !.to = to], "401")
           ELSE IF SelfLike(str(AuthUser(tok)._id), to)
           THEN Done([IdleCall EXCEPT !.op = "like",
                          !.uid = str(AuthUser(tok)._id), !.to = to], "400")
           ELSE [IdleCall EXCEPT !.pc = "insert", !.op = "like",
                     !.uid = str(AuthUser(tok)._id), !.to = to]]
    /\ UNCHANGED <<store, resp, now>>

\* create_document("like", ...)
LikeInsertStep(w) ==
    /\ calls[w].pc = "insert"
    /\ like' = InsertLike(like, calls[w].uid, calls[w].to)
    /\ calls' = [calls EXCEPT ![w].pc = "mutual"]
    /\ UNCHANGED <<userauth, profile, match, message, nextUser, nextProfile, nextMatch, resp, now>>

\* mutual = db["like"].find_one(...)
LikeMutualStep(w) ==
    /\ calls[w].pc = "mutual"
    /\ calls' = [calls EXCEPT ![w] =
           IF MutualLike(like, calls[w].uid, calls[w].to)
           THEN [@ EXCEPT !.pc = "exists"]
           ELSE Done(@, "liked")]
    /\ UNCHANGED <<store, resp, now>>

\* exists = db["match"].find_one(...)
LikeExistsStep(w) ==
    /\ calls[w].pc = "exists"
    /\ calls' = [calls EXCEPT ![w] =
           IF MatchExists(match, calls[w].uid, calls[w].to)
           THEN Done(@, "match")
           ELSE [@ EXCEPT !.pc = "create"]]
    /\ UNCHANGED <<store, resp, now>>

\* create_document("match", ...)
LikeCreateStep(w) ==
    /\ calls[w].pc = "create"
    /\ nextMatch <= MaxMatches
    /\ match' = InsertMatch(match, nextMatch, calls[w].uid, calls[w].to)
    /\ nextMatch' = nextMatch + 1
    /\ calls' = [calls EXCEPT ![w] = Done(@, "match")]
    /\ UNCHANGED <<userauth, profile, like, message, nextUser, nextProfile, resp, now>>

\* ------------------------------ create_or_update_profile, one store step at a time
ProfileBegin(w, tok, data) ==
    /\ Free(w)
    /\ calls' = [calls EXCEPT ![w] =
           IF ~Authenticated(tok)
           THEN Done([IdleCall EXCEPT !.op = "profile"], "401")
           ELSE IF ~AuthUser(tok).paid
           THEN Done([IdleCall EXCEPT !.op = "profile",
                          !.uid = str(AuthUser(tok)._id)], "402")
           ELSE [IdleCall EXCEPT !.pc = "find", !.op = "profile",
                     !.uid = str(AuthUser(tok)._id), !.data = data]]
    /\ UNCHANGED <<store, resp, now>>

\* existing = db["profile"].find_one(...): 0 stands for None
ProfileFindStep(w) ==
    /\ calls[w].pc = "find"
    /\ \E e \in IF FindProfiles(profile, calls[w].uid) = {} THEN {0}
                ELSE {p._id : p \in FindProfiles(profile, calls[w].uid)} :
           calls' = [calls EXCEPT ![w].pc = "write", ![w].existing = e]
    /\ UNCHANGED <<store, resp, now>>

\* update_one by _id, or create_document("profile", ...)
ProfileWriteStep(w) ==
    /\ calls[w].pc = "write"
    /\ IF calls[w].existing # 0
       THEN /\ profile' = UpdateProfile(profile, calls[w].existing,
                                        calls[w].uid, calls[w].data)
            /\ calls' = [calls EXCEPT ![w] = Done(@, "updated")]
            /\ UNCHANGED nextProfile
       ELSE /\ nextProfile <= MaxProfiles
            /\ profile' = InsertProfile(profile, nextProfile,
                                        calls[w].uid, calls[w].data)
            /\ nextProfile' = nextProfile + 1
            /\ calls' = [calls EXCEPT ![w] = Done(@, "created")]
    /\ UNCHANGED <<userauth, like, match, message, nextUser, nextMatch, resp, now>>

\* ---------------------------------------------------------- specifications
\* Requests served one at a time.  Each specification takes the operations that
\* write or read the collections its claims are about; an operation left out of
\* one leaves those collections unchanged (see its UNCHANGED).

\* The social graph: identities, likes, matches, cascading delete.
Next ==
    \/ create_checkout_session
    \/ \E s \in Sessions : confirm_payment(s)
    \/ \E t \in Tokens, to \in LikeTargets : like_user(t, to)
    \/ \E t \in Tokens : get_matches(t)
    \/ \E a \in AdminTokens, id \in UserIdStrings : admin_delete_user(a, id)

Spec == Init /\ [][Next]_vars

\* The conversation gate on top of the social graph.
NextChat ==
    \/ create_checkout_session
    \/ \E t \in Tokens, to \in LikeTargets : like_user(t, to)
    \/ \E t \in Tokens, m \in MatchIdStrings, x \in Texts : send_message(t, m, x)
    \/ \E t \in Tokens, m \in MatchIdStrings : get_messages(t, m)
    \/ \E a \in AdminTokens, id \in UserIdStrings : admin_delete_user(a, id)

SpecChat == Init /\ [][NextChat]_vars

\* The chat history of matched identities, with time passing between requests.
NextHistory ==
    \/ create_checkout_session
    \/ \E t \in Tokens, to \in LikeTargets : like_user(t, to)
    \/ \E t \in Tokens, m \in MatchIdStrings, x \in Texts : Send(t, m, x, MaxHistory)
    \/ \E t \in Tokens, m \in MatchIdStrings : get_messages(t, m)
    \/ Tick

SpecHistory == Init /\ [][NextHistory]_vars

\* Profiles and the cascading delete.
NextAdmin ==
    \/ create_checkout_session
    \/ \E s \in Sessions : confirm_payment(s)
    \/ \E t \in Tokens, d \in Fields : create_or_update_profile(t, d)
    \/ \E a \in AdminTokens, id \in UserIdStrings : admin_delete_user(a, id)

SpecAdmin == Init /\ [][NextAdmin]_vars

\* Every operation a user credential opens, with the admin delete.
NextAuth ==
    \/ (nextUser <= MaxAuthUsers /\ create_checkout_session)
    \/ \E s \in Sessions : confirm_payment(s)
    \/ \E t \in Tokens, d \in Fields : create_or_update_profile(t, d)
    \/ \E t \in Tokens : get_my_profile(t)
    \/ \E t \in Tokens, f \in Filters, v \in BOOLEAN : search_profiles(t, f, v)
    \/ \E t \in Tokens, to \in Identities : like_user(t, to)
    \/ \E t \in Tokens : get_matches(t)
    \/ \E t \in Tokens, m \in MatchIdStrings, x \in Texts : send_message(t, m, x)
    \/ \E t \in Tokens, m \in MatchIdStrings : get_messages(t, m)
    \/ \E a \in AdminTokens, id \in UserIdStrings : admin_delete_user(a, id)

SpecAuth == Init /\ [][NextAuth]_vars

\* The life of an identity: checkout, confirm, admin verify and delete, with the
\* operations that read its flags.
NextIdentity ==
    \/ create_checkout_session
    \/ \E s \in Sessions : confirm_payment(s)
    \/ \E t \in Tokens, d \in Fields : create_or_update_profile(t, d)
    \/ \E t \in Tokens : get_my_profile(t)
    \/ \E t \in Tokens, f \in Filters, v \in BOOLEAN : search_profiles(t, f, v)
    \/ \E a \in AdminTokens, id \in UserIdStrings : admin_verify_user(a, id)
    \/ \E a \in AdminTokens, id \in UserIdStrings : admin_delete_user(a, id)

SpecIdentity == Init /\ [][NextIdentity]_vars

\* Concurrent like_user requests, their store steps interleaved.
NextLikeRace ==
    \/ create_checkout_session
    \/ \E w \in Workers, t \in Tokens, to \in LikeTargets : LikeBegin(w, t, to)
    \/ \E w \in Workers : LikeInsertStep(w)
    \/ \E w \in Workers : LikeMutualStep(w)
    \/ \E w \in Workers : LikeExistsStep(w)
    \/ \E w \in Workers : LikeCreateStep(w)

SpecLikeRace == Init /\ [][NextLikeRace]_vars

\* Concurrent like_user requests between identities that may have paid.
NextPaidLikeRace ==
    \/ (nextUser <= MaxAuthUsers /\ create_checkout_session)
    \/ \E s \in Sessions : confirm_payment(s)
    \/ \E w \in Workers, t \in Tokens, to \in Identities : LikeBegin(w, t, to)
    \/ \E w \in Workers : LikeInsertStep(w)
    \/ \E w \in Workers : LikeMutualStep(w)
    \/ \E w \in Workers : LikeExistsStep(w)
    \/ \E w \in Workers : LikeCreateStep(w)

SpecPaidLikeRace == Init /\ [][NextPaidLikeRace]_vars

\* Concurrent create_or_update_profile requests, their store steps interleaved.
NextProfileRace ==
    \/ create_checkout_session
    \/ \E s \in Sessions : confirm_payment(s)
    \/ \E w \in Workers, t \in Tokens, d \in Fields : ProfileBegin(w, t, d)
    \/ \E w \in Workers : ProfileFindStep(w)
    \/ \E w \in Workers : ProfileWriteStep(w)

SpecProfileRace == Init /\ [][NextProfileRace]_vars

\* -------------------------------------------------------------- properties
HasLike(x, y) == BagIn([from_id |-> x, to_id |-> y], like)
LikeCount(likes, x, y) ==
    IF BagIn([from_id |-> x, to_id |-> y], likes)
    THEN CopiesIn([from_id |-> x, to_id |-> y], likes) ELSE 0
PairMatches(matches, x, y) ==
    {m \in matches : {m.userauth_a, m.userauth_b} = {x, y}}
IdentityExists(id) == \E u \in userauth : str(u._id) = id
Caller == str(AuthUser(resp.tok)._id)

\* C1: under any interleaving of the store steps of concurrent like() calls, at
\* most one Match edge is stored for an unordered pair {x,y}, whichever way
\* round it is stored.
C1_AtMostOneMatchPerPair ==
    \A m1, m2 \in match :
        {m1.userauth_a, m1.userauth_b} = {m2.userauth_a, m2.userauth_b} => m1 = m2

\* C2: with like() and deleteUser() calls run one after the other, whenever Like
\* x->y and Like y->x are both stored exactly one Match for {x,y} is stored, and a
\* step creates a Match for {x,y} exactly when it inserts the second direction of
\* the pair while no Match for the pair is stored.
C2_MutualLikesHaveOneMatch ==
    \A x, y \in UserIdStrings :
        (x # y /\ HasLike(x, y) /\ HasLike(y, x))
            => Cardinality(PairMatches(match, x, y)) = 1

C2_SecondDirection(x, y) ==
    \E d \in {<<x, y>>, <<y, x>>} :
        /\ LikeCount(like, d[1], d[2]) = 0
        /\ LikeCount(like', d[1], d[2]) = 1
        /\ LikeCount(like, d[2], d[1]) > 0

C2_MatchCreatedBySecondLike ==
    \/ (like' = like /\ match' = match)
    \/ \A x, y \in UserIdStrings :
        x # y =>
            ((PairMatches(match', x, y) \ PairMatches(match, x, y) # {})
                <=> (C2_SecondDirection(x, y) /\ PairMatches(match, x, y) = {}))

\* C2, both parts: the invariant and the step property above.
C2_ExactlyOneMatch ==
    [](C2_MutualLikesHaveOneMatch) /\ [][C2_MatchCreatedBySecondLike]_vars

C2_Witness ==
    /\ resp.op = "like" /\ resp.status = "match"
    /\ HasLike(Caller, resp.arg) /\ HasLike(resp.arg, Caller)
    /\ LikeCount(like, Caller, resp.arg) = 2
    /\ Cardinality(PairMatches(match, Caller, resp.arg)) = 1

\* C3: like() by an authenticated identity whose paid flag is false, aimed at
\* another stored identity, is rejected with 402 Payment Required.
C3_UnpaidLikeRejected ==
    (/\ resp.op = "like"
     /\ Authenticated(resp.tok)
     /\ ~AuthUser(resp.tok).paid
     /\ resp.arg # Caller
     /\ IdentityExists(resp.arg))
        => resp.status = "402"

\* C4: every stored Like edge's two ends, every stored Match edge's two
\* participants and every stored Message's sender are stored identities (of a
\* Like edge's target, when it is an id text in the store's own spelling).
C4_ReferentialIntegrity ==
    /\ \A e \in BagToSet(like) :
           /\ IdentityExists(e.from_id)
           /\ e.to_id[2] = "lc" => IdentityExists(e.to_id)
    /\ \A m \in match : IdentityExists(m.userauth_a) /\ IdentityExists(m.userauth_b)
    /\ \A i \in 1..Len(message) : IdentityExists(message[i].from_id)

\* C5: send and history answer 404 when no Match with the given id is stored, 403
\* when it is stored and the caller is neither participant, and succeed for
\* either participant; a send that fails stores no Message.
C5_MatchStored(match_id) ==
    match_id[2] # "bad" /\ \E m \in match : m._id = match_id[1]

C5_CallerInMatch(match_id) ==
    \E m \in match : /\ m._id = match_id[1]
                     /\ (m.userauth_a = Caller \/ m.userauth_b = Caller)

C5_Answer ==
    (resp.op \in {"send", "history"} /\ Authenticated(resp.tok)) =>
        /\ ~C5_MatchStored(resp.arg) => resp.status = "404"
        /\ (C5_MatchStored(resp.arg) /\ ~C5_CallerInMatch(resp.arg))
               => resp.status = "403"
        /\ (C5_MatchStored(resp.arg) /\ C5_CallerInMatch(resp.arg))
               => resp.status = (IF resp.op = "send" THEN "sent" ELSE "200")

C5_FailedSendStoresNothing ==
    (resp'.op = "send" /\ resp'.status # "sent") => message' = message

\* C5, both parts: the answers of send and history, and a failing send's frame.
C5_ChatGate == [](C5_Answer) /\ [][C5_FailedSendStoresNothing]_vars

\* the participant stored on the b side of the edge has sent a message
C5_Witness ==
    /\ resp.op = "send" /\ resp.status = "sent"
    /\ \E m \in match : m._id = resp.arg[1] /\ m.userauth_b = Caller
    /\ Len(message) = 1

\* C6: after deleteUser(id) has run, the identity id is removed and no Profile
\* owned by it, no Like edge from or to it, no Match edge with it and no Message
\* sent by it is stored.
C6_DeleteRemovesEverything ==
    (resp.op = "delete" /\ resp.status \in {"deleted", "404"}) =>
        LET id == str(ObjectId(resp.arg)) IN
        /\ ~IdentityExists(id)
        /\ \A p \in profile : p.userauth_id # id
        /\ \A e \in BagToSet(like) : e.from_id # id /\ e.to_id # id
        /\ \A m \in match : m.userauth_a # id /\ m.userauth_b # id
        /\ \A i \in 1..Len(message) : message[i].from_id # id

\* C7: when deleteUser(A) removes identity A, every Match of A with another
\* identity B is gone from listMatches(B) and send/history by B on its id answer
\* 404, while B's Profile, B's identity record and B's Likes and Matches with
\* identities other than A are as before.
C7_AfterDelete(A) ==
    \A B \in Identities \ {A} :
        /\ \A m \in PairMatches(match, A, B) :
               /\ m \notin MatchesOf(match', B)
               /\ ChatAccess(match', B, str(m._id)) = "404"
        /\ FindProfiles(profile', B) = FindProfiles(profile, B)
        /\ {u \in userauth' : str(u._id) = B} = {u \in userauth : str(u._id) = B}
        /\ \A C \in Identities \ {A} :
               /\ LikeCount(like', B, C) = LikeCount(like, B, C)
               /\ PairMatches(match', B, C) = PairMatches(match, B, C)

C7_DeleteStep ==
    \A a \in AdminTokens, id \in UserIdStrings :
        (admin_delete_user(a, id) /\ resp'.status = "deleted")
            => C7_AfterDelete(str(ObjectId(id)))

\* C7 as a property of every deleteUser step that removes an identity.
C7_DeleteLeavesOthers == [][C7_DeleteStep]_vars

\* C8: at most one Profile is stored per identity, also when two upsertProfile
\* calls by one identity interleave their find and their insert/update.
C8_OneProfilePerIdentity ==
    \A p1, p2 \in profile : p1.userauth_id = p2.userauth_id => p1 = p2

\* C9: like(x,x) by an authenticated identity x answers 400 and stores nothing,
\* and no Like edge x->x is ever stored.
C9_Answer ==
    /\ (resp.op = "like" /\ Authenticated(resp.tok) /\ resp.arg = Caller)
           => resp.status = "400"
    /\ \A e \in BagToSet(like) : e.from_id # e.to_id

C9_RejectedStoresNothing ==
    (resp'.op = "like" /\ resp'.status = "400") => (like' = like /\ match' = match)

\* C9, both parts: the 400 answer with no self edge stored, and the frame.
C9_NoSelfLike == [](C9_Answer) /\ [][C9_RejectedStoresNothing]_vars

C9_Witness ==
    /\ resp.op = "like" /\ resp.status = "400"
    /\ Authenticated(resp.tok) /\ resp.arg = Caller
    /\ like # EmptyBag

\* C10: a like(x,y) that succeeds answers match exactly when a Like edge y->x is
\* stored, else liked; answering liked it creates no Match edge.
C10_Answer ==
    (resp.op = "like" /\ resp.status \in {"liked", "match"}) =>
        (resp.status = "match" <=> HasLike(resp.arg, Caller))

C10_LikedCreatesNoMatch ==
    (resp'.op = "like" /\ resp'.status = "liked") => match' = match

\* C10, both parts: the answer of a successful like, and liked creating no Match.
C10_LikedOrMatch == [](C10_Answer) /\ [][C10_LikedCreatesNoMatch]_vars

C10_Witness ==
    /\ resp.op = "like" /\ resp.status = "liked"
    /\ HasLike(Caller, resp.arg) /\ ~HasLike(resp.arg, Caller)
    /\ match # {}

\* C11: history by a participant returns exactly the Messages stored with that
\* match_id, in non-decreasing creation-time order, and a message whose send
\* completed before another send on the same match began never comes after it:
\* the answer is the stored messages of the match in the order they were sent.
C11_HistoryInSendOrder ==
    (resp.op = "history" /\ resp.status = "200")
        => resp.messages = MessagesOf(message, resp.arg)

C11_IsReordering(out, ms) ==
    /\ Len(out) = Len(ms)
    /\ \E p \in Permutations_(Len(ms)) : \A i \in 1..Len(ms) : out[i] = ms[p[i]]

\* C11, amended: history returns exactly the Messages stored with that match_id,
\* in non-decreasing creation-time order; of two stored messages with different
\* creation times the one sent first comes first.
C11_HistoryInCreationOrder ==
    (resp.op = "history" /\ resp.status = "200") =>
        LET ms == SelectSeq(message, LAMBDA m : m.match_id = resp.arg)
            out == resp.messages IN
        /\ C11_IsReordering(out, ms)
        /\ \A i, j \in 1..Len(out) :
               i < j => out[i].created_at <= out[j].created_at
        /\ \A i, j \in 1..Len(ms) :
               (i < j /\ ms[i].created_at # ms[j].created_at)
                   => \E k, l \in 1..Len(out) :
                          k < l /\ out[k] = ms[i] /\ out[l] = ms[j]

C11_Witness ==
    /\ resp.op = "history" /\ resp.status = "200"
    /\ Len(resp.messages) = 2
    /\ resp.messages[1].created_at < resp.messages[2].created_at
    /\ resp.messages[1].from_id # resp.messages[2].from_id

\* C12: listMatches(identity) returns exactly the stored Match edges in which
\* the identity is either participant: an edge {x,y} is returned to x and to y,
\* whichever of them completed the mutual like, and to no other identity.
C12_Answer == resp.op = "matches" /\ resp.status = "200"
C12_Returned(m) == \E r \in resp.matches : r = [m EXCEPT !._id = <<m._id, "lc">>]
C12_ListsOwnMatches ==
    C12_Answer =>
        /\ \A m \in match :
               C12_Returned(m) <=> (Caller = m.userauth_a \/ Caller = m.userauth_b)
        /\ \A r \in resp.matches :
               \E m \in match : r = [m EXCEPT !._id = <<m._id, "lc">>]

\* the caller is the participant who did not complete the mutual like
C12_Witness ==
    /\ C12_Answer
    /\ \E r \in resp.matches : Caller = r.userauth_b
    /\ \E u \in userauth : str(u._id) \notin {Caller} /\
           \A m \in match : str(u._id) \notin {m.userauth_a, m.userauth_b}

\* C13: upsertProfile by an identity whose paid flag is false answers 402 and
\* leaves the profile store unchanged; by a paid identity it answers created
\* when the identity had no stored Profile and updated when it had one, and
\* afterwards that identity's Profile holds the submitted fields while every
\* other identity's Profile is unchanged.
C13_After(uid, paid, data) ==
    LET mine   == {p \in profile : p.userauth_id = uid}
        others == {p \in profile : p.userauth_id # uid} IN
    IF ~paid
    THEN resp'.status = "402" /\ profile' = profile
    ELSE /\ resp'.status = (IF mine = {} THEN "created" ELSE "updated")
         /\ \E p \in profile' : p.userauth_id = uid
         /\ \A p \in profile' : p.userauth_id = uid => p.data = data
         /\ {p \in profile' : p.userauth_id # uid} = others

C13_UpsertStep ==
    \A t \in Tokens, d \in Fields :
        (create_or_update_profile(t, d) /\ Authenticated(t))
            => C13_After(str(AuthUser(t)._id), AuthUser(t).paid, d)

C13_UpsertProfile == [][C13_UpsertStep]_vars

\* an update that changed the caller's fields, beside another identity's
\* Profile holding different fields
C13_Witness ==
    /\ resp.op = "profile" /\ resp.status = "updated"
    /\ \E p, q \in profile :
           /\ p.userauth_id = Caller /\ q.userauth_id # Caller
           /\ p.data # q.data
    /\ \E u \in userauth : ~u.paid

\* C14: upsertProfile, getOwnProfile, search, like, listMatches, send and
\* history answer 401 and change nothing when the credential is absent or
\* matches no stored identity; once deleteUser(A) has removed identity A, A's
\* credential is rejected by every one of them.
C14_UserCall(t) ==
    \/ \E d \in Fields : create_or_update_profile(t, d)
    \/ get_my_profile(t)
    \/ \E f \in Filters, v \in BOOLEAN : search_profiles(t, f, v)
    \/ \E to \in LikeTargets : like_user(t, to)
    \/ get_matches(t)
    \/ \E m \in MatchIdStrings, x \in Texts : send_message(t, m, x)
    \/ \E m \in MatchIdStrings : get_messages(t, m)

\* (a call by credential t leaves t in resp.tok)
C14_RejectedStep ==
    \A t \in Tokens :
        (resp'.tok = t /\ ~Authenticated(t) /\ C14_UserCall(t))
            => (resp'.status = "401" /\ store' = store)

C14_DeleteStep ==
    \A a \in AdminTokens, id \in UserIdStrings :
        (resp'.status = "deleted" /\ admin_delete_user(a, id))
            => \A A \in userauth :
                   A._id = ObjectId(id) => \A u \in userauth' : u.token # A.token

C14_UnauthorizedChangesNothing == [][C14_RejectedStep /\ C14_DeleteStep]_vars

\* the credential of a deleted identity is presented while the other identity's
\* Profile and Like are stored
C14_Witness ==
    /\ resp.op \in {"profile", "me", "search", "like", "matches", "send", "history"}
    /\ resp.status = "401"
    /\ resp.tok # NoToken /\ resp.tok < nextUser
    /\ profile # {} /\ like # EmptyBag

\* C15: for two concurrent calls like(x,y) and like(y,x) between paid
\* identities x # y, under every interleaving of their store steps: once both
\* calls have completed, at least one Match edge for {x,y} is stored and at
\* least one of the two calls returned match; they never both return liked.
C15_Paid(id) == \E u \in userauth : str(u._id) = id /\ u.paid
C15_BothCompleted(w1, w2) ==
    /\ w1 # w2
    /\ calls[w1].pc = "done" /\ calls[w2].pc = "done"
    /\ calls[w1].op = "like" /\ calls[w2].op = "like"
    /\ calls[w1].status \in {"liked", "match"}
    /\ calls[w2].status \in {"liked", "match"}
    /\ calls[w1].uid = calls[w2].to /\ calls[w1].to = calls[w2].uid
    /\ calls[w1].uid # calls[w1].to
    /\ C15_Paid(calls[w1].uid) /\ C15_Paid(calls[w2].uid)

C15_CrossingLikesMatch ==
    \A w1, w2 \in Workers :
        C15_BothCompleted(w1, w2) =>
            /\ PairMatches(match, calls[w1].uid, calls[w1].to) # {}
            /\ "match" \in {calls[w1].status, calls[w2].status}

\* both calls returned match with only their own two Likes stored: their store
\* steps were interleaved
C15_Witness ==
    /\ \E w1, w2 \in Workers :
           /\ C15_BothCompleted(w1, w2)
           /\ calls[w1].status = "match" /\ calls[w2].status = "match"
    /\ BagCardinality(like) = 2

\* C16: Matched is terminal for like(): once a Match edge for {x,y} is stored,
\* every further like(x,y) or like(y,x) answers match, stores one more Like edge
\* (n successful like(x,y) calls store n edges x->y) and leaves the set of Match
\* edges unchanged.
C16_LikeStep ==
    \A t \in Tokens, to \in LikeTargets :
        (resp'.tok = t /\ like_user(t, to) /\ Authenticated(t)
            /\ PairMatches(match, str(AuthUser(t)._id), to) # {})
        => LET x == str(AuthUser(t)._id) IN
           /\ resp'.status = "match"
           /\ LikeCount(like', x, to) = LikeCount(like, x, to) + 1
           /\ BagCardinality(like') = BagCardinality(like) + 1
           /\ match' = match

C16_MatchedIsTerminal == [][C16_LikeStep]_vars

\* a like repeated after the pair's Match was stored: two edges in its direction
\* and still the one Match
C16_Witness ==
    /\ resp.op = "like" /\ resp.status = "match"
    /\ LikeCount(like, Caller, resp.arg) = 2
    /\ Cardinality(PairMatches(match, Caller, resp.arg)) = 1
    /\ nextMatch = 2

\* C17: deleteUser(id) with a well-formed id for which no identity is stored
\* answers 404, yet has performed the cascade: no Profile, Like edge, Match edge
\* or Message (by sender) referencing that id is left; it answers deleted exactly
\* when an identity with that id was stored and has been removed.
C17_NoneLeft(id, profiles, likes, matches, messages) ==
    /\ \A p \in profiles : p.userauth_id # id
    /\ \A e \in BagToSet(likes) : e.from_id # id /\ e.to_id # id
    /\ \A m \in matches : m.userauth_a # id /\ m.userauth_b # id
    /\ \A i \in 1..Len(messages) : messages[i].from_id # id

C17_DeleteStep ==
    \A id \in UserIdStrings :
        (resp'.op = "delete" /\ ValidObjectId(id) /\ admin_delete_user(ADMIN_TOKEN, id))
        => LET stored == \E u \in userauth : u._id = ObjectId(id) IN
           /\ resp'.status = (IF stored THEN "deleted" ELSE "404")
           /\ \A u \in userauth' : u._id # ObjectId(id)
           /\ ~stored => C17_NoneLeft(str(ObjectId(id)), profile', like', match', message')

C17_NotFoundStillCascades == [][C17_DeleteStep]_vars

\* C18: in every reachable state (after any sequence of like, send and admin
\* deleteUser calls) every stored Message's match_id refers to a stored Match
\* edge and the Message's sender is one of that Match's two participants: no
\* Message outlives its Match.
C18_NoMessageOutlivesItsMatch ==
    \A i \in 1..Len(message) :
        \E m \in match :
            /\ m._id = ObjectId(message[i].match_id)
            /\ message[i].from_id \in {m.userauth_a, m.userauth_b}

\* C19: in every state reached by like() and admin deleteUser() calls that each
\* run to completion, every stored Match edge {a,b} has a # b and both a Like
\* edge a->b and a Like edge b->a are stored.
C19_MatchHasBothLikes ==
    \A m \in match :
        /\ m.userauth_a # m.userauth_b
        /\ HasLike(m.userauth_a, m.userauth_b)
        /\ HasLike(m.userauth_b, m.userauth_a)

\* a Match and its two Likes stored after an admin delete that removed a third
\* identity
C19_Witness ==
    /\ resp.op = "delete" /\ resp.status = "deleted" /\ resp.arg[2] = "lc"
    /\ \E m \in match : resp.arg \notin {m.userauth_a, m.userauth_b}
    /\ BagCardinality(like) = 2

\* C20: a credential is returned to a caller only by confirm, and only after the
\* identity's paid flag has been set to true; no operation sets paid or verified
\* back to false, so every identity whose credential has been disclosed has
\* paid = TRUE in every later state in which it is still stored.
C20_ReturnedByConfirmWhenPaid ==
    resp.token # NoToken =>
        /\ resp.op = "confirm" /\ resp.status = "200"
        /\ \E u \in userauth : u.token = resp.token /\ u.paid

C20_FlagsStaySet ==
    \A u \in userauth, v \in userauth' :
        u._id = v._id => /\ u.paid => v.paid
                         /\ u.verified => v.verified
                         /\ v.token = u.token

C20_PaidEverAfter(k) ==
    [](resp.token = k => [](\A u \in userauth : u.token = k => u.paid))

C20_DisclosedCredentialIsPaid ==
    /\ [](C20_ReturnedByConfirmWhenPaid)
    /\ [][C20_FlagsStaySet]_vars
    /\ \A k \in Tokens \ {NoToken} : C20_PaidEverAfter(k)

\* a credential that confirm returned is used later, its identity paid and
\* verified
C20_Witness ==
    /\ resp.op = "me" /\ resp.status = "200" /\ resp.verified
    /\ AuthUser(resp.tok).paid
    /\ \E u \in userauth : ~u.paid

====
